---- MODULE Spec2Model ----
(***************************************************************************)
(* Model of rfsee.py: citation extraction from RFC text, the entry store   *)
(* RFC_INFO built by prep_hashtable (population and reverse citations),    *)
(* and the store effects of the rendering calls made by main.              *)
(*                                                                         *)
(* Strings are sequences of one-character strings, so that the regular     *)
(* expressions, the zero stripping and the int()/format round trip are     *)
(* computed character by character as the code computes them.              *)
(***************************************************************************)
EXTENDS Integers, Sequences, FiniteSets, TLC

VARIABLES
    index,      \* the rfc-entry doc-ids of rfc-index.xml, in document order
    zips,       \* the zips/*.txt files opened so far: name -> File(text) or Missing
    RFC_INFO,   \* the store: insertion-ordered sequence of <<key, tuple>>
    pc,         \* position of main
    i,          \* cursor of the running loop
    dot,        \* .dot files written: sequence of <<rfc, cites nodes, rev_cites nodes>>
    html,       \* rfcs whose .html page has been written
    compile_sh, \* lines appended to compile.sh
    index_html, \* listing written to dot/index.html
    text,       \* extraction harness: the text handed to the extractor
    rfcArg,     \* extraction harness: the rfc argument
    result,     \* extraction harness: the returned list
    xpc         \* extraction harness: which function has been applied

vars == <<index, zips, RFC_INFO, pc, i, dot, html, compile_sh, index_html,
          text, rfcArg, result, xpc>>

pipelineVars == <<index, zips, RFC_INFO, pc, i, dot, html, compile_sh, index_html>>
harnessVars == <<text, rfcArg, result, xpc>>

-----------------------------------------------------------------------------
(* Bounds *)

MaxFrags == 5
MaxCites == 2

-----------------------------------------------------------------------------
(* Characters *)

Digits == <<"0", "1", "2", "3", "4", "5", "6", "7", "8", "9">>

IsDigit(c) == \E d \in 1..10 : Digits[d] = c

IsSpace(c) == c \in {" ", "\t", "\n"}

UpperOf(c) ==
    CASE c = "r" -> "R"
      [] c = "f" -> "F"
      [] c = "c" -> "C"
      [] OTHER -> c

LowerOf(c) ==
    CASE c = "R" -> "r"
      [] c = "F" -> "f"
      [] c = "C" -> "c"
      [] OTHER -> c

Letters ==
    {"a", "b", "c", "d", "e", "f", "g", "h", "i", "j", "k", "l", "m",
     "n", "o", "p", "q", "r", "s", "t", "u", "v", "w", "x", "y", "z",
     "A", "B", "C", "D", "E", "F", "G", "H", "I", "J", "K", "L", "M",
     "N", "O", "P", "Q", "R", "S", "T", "U", "V", "W", "X", "Y", "Z"}

\* \w
IsWord(c) == IsDigit(c) \/ c \in Letters \/ c = "_"

Lower(s) == [k \in 1..Len(s) |-> LowerOf(s[k])]

Max(S) == CHOOSE x \in S : \A y \in S : y <= x

Min(S) == CHOOSE x \in S : \A y \in S : x <= y

Elems(s) == {s[k] : k \in 1..Len(s)}

-----------------------------------------------------------------------------
(* Regular-expression primitives *)

\* \b at the gap before position p of s
WordBoundary(s, p) ==
    ((p > 1 /\ p - 1 <= Len(s)) /\ IsWord(s[p - 1])) # (p <= Len(s) /\ IsWord(s[p]))

\* the literal RFC at position p, re.IGNORECASE
MatchRFC(s, p) ==
    /\ p + 2 <= Len(s)
    /\ UpperOf(s[p]) = "R"
    /\ UpperOf(s[p + 1]) = "F"
    /\ UpperOf(s[p + 2]) = "C"

\* \s* from position p: the position after the whitespace run
RECURSIVE SkipSpace(_, _)
SkipSpace(s, p) ==
    IF p <= Len(s) /\ IsSpace(s[p]) THEN SkipSpace(s, p + 1) ELSE p

\* number of consecutive digits from position p
RECURSIVE DigitRun(_, _)
DigitRun(s, p) ==
    IF p <= Len(s) /\ IsDigit(s[p]) THEN 1 + DigitRun(s, p + 1) ELSE 0

\* number of consecutive characters other than ] from position p
RECURSIVE NonCloseRun(_, _)
NonCloseRun(s, p) ==
    IF p <= Len(s) /\ s[p] # "]" THEN 1 + NonCloseRun(s, p + 1) ELSE 0

NoMatch == [ok |-> FALSE, from |-> 0, to |-> 0]

\* _RFC_TOKEN tried at position p: \bRFC\s*(\d{1,4})\b ; group 1 is s[from..to]
TokenEndMutNoBoundary(s, d) ==
    {k \in 1..4 : k <= DigitRun(s, d)}

TokenEnd(s, d) ==
    {k \in 1..4 : k <= DigitRun(s, d) /\ WordBoundary(s, d + k)}

RFC_TOKEN(s, p) ==
    IF WordBoundary(s, p) /\ MatchRFC(s, p)
    THEN LET d == SkipSpace(s, p + 3)
             ks == TokenEnd(s, d)
         IN IF ks = {} THEN NoMatch
            ELSE [ok |-> TRUE, from |-> d, to |-> d + Max(ks) - 1]
    ELSE NoMatch

\* _RFC_TOKEN.findall(s): group 1 of the non-overlapping matches, left to right
RECURSIVE findall(_, _)
findall(s, p) ==
    IF p > Len(s) THEN <<>>
    ELSE LET m == RFC_TOKEN(s, p)
         IN IF m.ok THEN <<SubSeq(s, m.from, m.to)>> \o findall(s, m.to + 1)
            ELSE findall(s, p + 1)

\* the lookahead (?=[^\]]*\bRFC\s*\d) evaluated after the [ at position p
Lookahead(s, p) ==
    \E q \in (p + 1)..(p + 1 + NonCloseRun(s, p + 1)) :
        /\ WordBoundary(s, q)
        /\ MatchRFC(s, q)
        /\ LET d == SkipSpace(s, q + 3) IN d <= Len(s) /\ IsDigit(s[d])

\* _BRACKET_WITH_RFC tried at position p; group 1 is s[from..to]
BRACKET_WITH_RFC(s, p) ==
    IF p <= Len(s) /\ s[p] = "[" /\ Lookahead(s, p)
    THEN LET n == NonCloseRun(s, p + 1)
         IN IF n >= 1 /\ p + 1 + n <= Len(s) /\ s[p + 1 + n] = "]"
            THEN [ok |-> TRUE, from |-> p + 1, to |-> p + n]
            ELSE NoMatch
    ELSE NoMatch

\* _BRACKET_WITH_RFC.finditer(text): group 1 of the successive matches
RECURSIVE finditer(_, _)
finditer(s, p) ==
    IF p > Len(s) THEN <<>>
    ELSE LET m == BRACKET_WITH_RFC(s, p)
         IN IF m.ok THEN <<SubSeq(s, m.from, m.to)>> \o finditer(s, m.to + 2)
            ELSE finditer(s, p + 1)

-----------------------------------------------------------------------------
(* int(num) and its rendering in f"RFC{int(num)}" *)

DigitVal(c) == (CHOOSE d \in 1..10 : Digits[d] = c) - 1

RECURSIVE int(_)
int(num) ==
    IF num = <<>> THEN 0
    ELSE 10 * int(SubSeq(num, 1, Len(num) - 1)) + DigitVal(num[Len(num)])

RECURSIVE str(_)
str(n) ==
    IF n < 10 THEN <<Digits[n + 1]>>
    ELSE str(n \div 10) \o <<Digits[(n % 10) + 1]>>

TokenOfMutRaw(num) == <<"R", "F", "C">> \o num

TokenOf(num) == <<"R", "F", "C">> \o str(int(num))

-----------------------------------------------------------------------------
(* extract_rfc_citations *)

\* the nested loops' iteration sequence: every num of every bracket, in order
RECURSIVE Nums(_)
Nums(insides) ==
    IF insides = <<>> THEN <<>>
    ELSE findall(Head(insides), 1) \o Nums(Tail(insides))

\* the loop body over the nums, carrying seen and results
RECURSIVE Collect(_, _, _)
CollectMutNoSeen(nums, seen, results) ==
    IF nums = <<>> THEN results
    ELSE LET token == TokenOf(Head(nums))
         IN IF token \notin seen
            THEN Collect(Tail(nums), seen, Append(results, token))
            ELSE Collect(Tail(nums), seen, results)

Collect(nums, seen, results) ==
    IF nums = <<>> THEN results
    ELSE LET token == TokenOf(Head(nums))
         IN IF token \notin seen
            THEN Collect(Tail(nums), seen \cup {token}, Append(results, token))
            ELSE Collect(Tail(nums), seen, results)

extract_rfc_citations(txt, rfc) ==
    Collect(Nums(finditer(txt, 1)), {rfc}, <<>>)

-----------------------------------------------------------------------------
(* get_citations *)

\* what open("zips/%s.txt") finds: a readable file with its text, or none
File(raw) == [found |-> TRUE, raw |-> raw]

Missing == [found |-> FALSE, raw |-> <<>>]

\* the while loop at the head of get_citations; rfc[3] past the end raises
RECURSIVE StripZeros(_)
StripZeros(rfc) ==
    IF Len(rfc) < 4 THEN [raised |-> TRUE, rfc |-> rfc]
    ELSE IF rfc[4] = "0"
         THEN StripZeros(<<"r", "f", "c">> \o SubSeq(rfc, 5, Len(rfc)))
         ELSE [raised |-> FALSE, rfc |-> rfc]

\* fs maps a file name (the %s of "zips/%s.txt") to File(text) or to Missing
get_citationsMutNoTry(rfc, fs) ==
    LET z == StripZeros(rfc)
    IN IF z.raised THEN [raised |-> TRUE, value |-> <<>>]
       ELSE IF fs[Lower(z.rfc)] = Missing
            THEN [raised |-> TRUE, value |-> <<>>]
            ELSE [raised |-> FALSE,
                  value |-> extract_rfc_citations(fs[Lower(z.rfc)].raw, z.rfc)]

get_citations(rfc, fs) ==
    LET z == StripZeros(rfc)
    IN IF z.raised THEN [raised |-> TRUE, value |-> <<>>]
       ELSE IF fs[Lower(z.rfc)] = Missing
            THEN [raised |-> FALSE, value |-> <<>>]
            ELSE [raised |-> FALSE,
                  value |-> extract_rfc_citations(fs[Lower(z.rfc)].raw, z.rfc)]

-----------------------------------------------------------------------------
(* Extraction harness: the extractor and get_citations applied to bounded   *)
(* texts assembled from citation fragments.                                 *)

RFC007 == <<"R", "F", "C", "0", "0", "7">>
RFC7 == <<"R", "F", "C", "7">>
RFC12 == <<"R", "F", "C", "1", "2">>

Frags ==
    { <<"[">>, <<"]">>, <<"]", "[">>,
      RFC007, <<" ", "r", "f", "c", " ", "7">>, RFC12, <<"1", "2">> }

RECURSIVE Flatten(_)
Flatten(ss) == IF ss = <<>> THEN <<>> ELSE Head(ss) \o Flatten(Tail(ss))

Texts == {Flatten(fs) : fs \in UNION {[1..n -> Frags] : n \in 0..MaxFrags}}

SelfIds == {RFC007, RFC12}

\* every zips/*.txt holds the harness text
HarnessFs == [n \in {Lower(StripZeros(r).rfc) : r \in SelfIds} |-> File(text)]

Idle == <<>>

InitX ==
    /\ text \in Texts
    /\ rfcArg \in SelfIds
    /\ result = <<>>
    /\ xpc = "start"
    /\ index = <<>> /\ zips = Idle /\ RFC_INFO = <<>> /\ pc = "idle" /\ i = 0
    /\ dot = <<>> /\ html = <<>> /\ compile_sh = <<>> /\ index_html = <<>>

CallExtract ==
    /\ xpc = "start"
    /\ result' = extract_rfc_citations(text, rfcArg)
    /\ xpc' = "extract_rfc_citations"
    /\ UNCHANGED <<text, rfcArg>>
    /\ UNCHANGED pipelineVars

CallGetCitations ==
    /\ xpc = "start"
    /\ result' = get_citations(rfcArg, HarnessFs).value
    /\ xpc' = "get_citations"
    /\ UNCHANGED <<text, rfcArg>>
    /\ UNCHANGED pipelineVars

NextX == CallExtract \/ CallGetCitations

SpecX == InitX /\ [][NextX]_vars

-----------------------------------------------------------------------------
(* The store RFC_INFO: a dict, kept as the sequence of its items in         *)
(* insertion order.                                                         *)

Keys(d) == [k \in 1..Len(d) |-> d[k][1]]

KeySet(d) == {d[k][1] : k \in 1..Len(d)}

\* d[key]
Get(d, key) == d[CHOOSE k \in 1..Len(d) : d[k][1] = key][2]

\* d[key] = val : a present key keeps its position, a new key goes last
Put(d, key, val) ==
    IF key \in KeySet(d)
    THEN [k \in 1..Len(d) |-> IF d[k][1] = key THEN <<key, val>> ELSE d[k]]
    ELSE Append(d, <<key, val>>)

-----------------------------------------------------------------------------
(* Inputs of a run *)

DocIds == {RFC007, RFC7, RFC12}

\* an index lists each doc-id at most once
Indexes ==
    {ix \in UNION {[1..n -> DocIds] : n \in 0..Cardinality(DocIds)} :
        \A a \in 1..Len(ix), b \in 1..Len(ix) : ix[a] = ix[b] => a = b}

CiteFrags == {RFC007, RFC12}

RECURSIVE Bracketed(_)
Bracketed(cs) ==
    IF cs = <<>> THEN <<>>
    ELSE <<"[">> \o Head(cs) \o <<"]">> \o Bracketed(Tail(cs))

DocTexts == {Bracketed(cs) : cs \in UNION {[1..n -> CiteFrags] : n \in 0..MaxCites}}

\* what get_sub_fields returns for one relation of one record
RelLists == {<<>>, <<RFC12, RFC7>>}

Init ==
    /\ index \in Indexes
    /\ zips = <<>>
    /\ RFC_INFO = <<>>
    /\ pc = IF index = <<>> THEN "write_index_html" ELSE "pass1"
    /\ i = 1
    /\ dot = <<>> /\ html = <<>> /\ compile_sh = <<>> /\ index_html = <<>>
    /\ text = <<>> /\ rfcArg = <<>> /\ result = <<>> /\ xpc = "idle"

-----------------------------------------------------------------------------
(* prep_hashtable, first loop: one rfc-entry of the index *)

Populate(d, rfc, fs) ==
    LET citations == get_citations(rfc, fs)
        rev_cites == <<>>
    IN IF citations.raised THEN [raised |-> TRUE, d |-> d]
       ELSE [raised |-> FALSE,
             d |-> Put(d, rfc, <<"title\nyear", "abstract", citations.value, rev_cites>>)]

prep_hashtable_populate ==
    /\ pc = "pass1"
    /\ LET rfc == index[i]
           z == StripZeros(rfc)
           name == Lower(z.rfc)
       IN \E content \in {File(t) : t \in DocTexts} \cup {Missing} :
            /\ zips' = IF z.raised \/ name \in DOMAIN zips THEN zips
                       ELSE zips @@ (name :> content)
            /\ LET r == Populate(RFC_INFO, rfc, zips')
               IN IF r.raised
                  THEN /\ pc' = "aborted"
                       /\ UNCHANGED <<RFC_INFO, i>>
                  ELSE /\ RFC_INFO' = r.d
                       /\ IF i < Len(index)
                          THEN i' = i + 1 /\ pc' = pc
                          ELSE i' = 1 /\ pc' = "pass2"
    /\ UNCHANGED <<index, dot, html, compile_sh, index_html>>
    /\ UNCHANGED harnessVars

-----------------------------------------------------------------------------
(* prep_hashtable, second loop: the citations of one key of RFC_INFO *)

RECURSIVE ReverseCites(_, _, _)
ReverseCitesMutAppendCite(d, rfc, citations) ==
    IF citations = <<>> THEN d
    ELSE LET cite == Head(citations)
         IN IF cite \in KeySet(d)
            THEN LET rev_cites == Get(d, cite)[4]
                 IN IF cite \notin Elems(rev_cites)
                    THEN ReverseCites(
                            Put(d, cite, <<Get(d, cite)[1], Get(d, cite)[2],
                                           Get(d, cite)[3], Append(rev_cites, cite)>>),
                            rfc, Tail(citations))
                    ELSE ReverseCites(d, rfc, Tail(citations))
            ELSE ReverseCites(d, rfc, Tail(citations))

ReverseCitesMutPrepend(d, rfc, citations) ==
    IF citations = <<>> THEN d
    ELSE LET cite == Head(citations)
         IN IF cite \in KeySet(d)
            THEN LET rev_cites == Get(d, cite)[4]
                 IN IF cite \notin Elems(rev_cites)
                    THEN ReverseCites(
                            Put(d, cite, <<Get(d, cite)[1], Get(d, cite)[2],
                                           Get(d, cite)[3], <<rfc>> \o rev_cites>>),
                            rfc, Tail(citations))
                    ELSE ReverseCites(d, rfc, Tail(citations))
            ELSE ReverseCites(d, rfc, Tail(citations))

ReverseCitesMutStub(d, rfc, citations) ==
    IF citations = <<>> THEN d
    ELSE LET cite == Head(citations)
             e == IF cite \in KeySet(d) THEN d
                  ELSE Put(d, cite, <<"", "", <<>>, <<>>>>)
             rev_cites == Get(e, cite)[4]
         IN IF cite \notin Elems(rev_cites)
            THEN ReverseCites(
                    Put(e, cite, <<Get(e, cite)[1], Get(e, cite)[2],
                                   Get(e, cite)[3], Append(rev_cites, rfc)>>),
                    rfc, Tail(citations))
            ELSE ReverseCites(e, rfc, Tail(citations))

ReverseCites(d, rfc, citations) ==
    IF citations = <<>> THEN d
    ELSE LET cite == Head(citations)
         IN IF cite \in KeySet(d)
            THEN LET rev_cites == Get(d, cite)[4]
                 IN IF cite \notin Elems(rev_cites)
                    THEN ReverseCites(
                            Put(d, cite, <<Get(d, cite)[1], Get(d, cite)[2],
                                           Get(d, cite)[3], Append(rev_cites, rfc)>>),
                            rfc, Tail(citations))
                    ELSE ReverseCites(d, rfc, Tail(citations))
            ELSE ReverseCites(d, rfc, Tail(citations))

prep_hashtable_reverse ==
    /\ pc = "pass2"
    /\ LET rfc == Keys(RFC_INFO)[i]
       IN RFC_INFO' = ReverseCites(RFC_INFO, rfc, Get(RFC_INFO, rfc)[3])
    /\ IF i < Len(RFC_INFO)
       THEN i' = i + 1 /\ pc' = pc
       ELSE i' = 1 /\ pc' = "write_index_html"
    /\ UNCHANGED <<index, zips, dot, html, compile_sh, index_html>>
    /\ UNCHANGED harnessVars

-----------------------------------------------------------------------------
(* Rendering *)

write_index_html ==
    /\ pc = "write_index_html"
    /\ index_html' = Keys(RFC_INFO)
    /\ pc' = IF index = <<>> THEN "done" ELSE "write_dot_src"
    /\ UNCHANGED <<index, zips, RFC_INFO, i, dot, html, compile_sh>>
    /\ UNCHANGED harnessVars

\* if temp not in RFC_INFO.keys(): RFC_INFO[temp] = ("", "")
AddStubMutOverwrite(d, temp) ==
    IF temp \notin KeySet(d) THEN Put(d, temp, <<"", "">>)
    ELSE Put(d, temp, <<"", "">> \o SubSeq(Get(d, temp), 3, Len(Get(d, temp))))

AddStub(d, temp) ==
    IF temp \notin KeySet(d) THEN Put(d, temp, <<"", "">>) ELSE d

RECURSIVE AddStubs(_, _)
AddStubs(d, temps) ==
    IF temps = <<>> THEN d ELSE AddStubs(AddStub(d, Head(temps)), Tail(temps))

\* the store after the four relation loops of write_dot_src
DotStore(d, obs_ids, obs_by_ids, updates, updated_by) ==
    AddStubs(d, obs_by_ids \o obs_ids \o updates \o updated_by)

\* the nodes written by a citation loop of write_dot_src
DotNodes(d, citations) ==
    SelectSeq(citations, LAMBDA citation : citation \in KeySet(d))

write_dot_src ==
    /\ pc = "write_dot_src"
    /\ \E obs_ids \in RelLists, obs_by_ids \in RelLists,
          updates \in RelLists, updated_by \in RelLists :
         LET rfc == index[i]
             d == DotStore(RFC_INFO, obs_ids, obs_by_ids, updates, updated_by)
         IN /\ RFC_INFO' = d
            /\ dot' = Append(dot, <<rfc, DotNodes(d, Get(d, rfc)[3]),
                                        DotNodes(d, Get(d, rfc)[4])>>)
    /\ pc' = "write_html"
    /\ UNCHANGED <<index, zips, i, html, compile_sh, index_html>>
    /\ UNCHANGED harnessVars

write_html ==
    /\ pc = "write_html"
    /\ html' = Append(html, index[i])
    /\ pc' = "write_compile_dot"
    /\ UNCHANGED <<index, zips, RFC_INFO, i, dot, compile_sh, index_html>>
    /\ UNCHANGED harnessVars

write_compile_dot ==
    /\ pc = "write_compile_dot"
    /\ compile_sh' = Append(compile_sh, index[i])
    /\ IF i < Len(index)
       THEN i' = i + 1 /\ pc' = "write_dot_src"
       ELSE i' = i /\ pc' = "done"
    /\ UNCHANGED <<index, zips, RFC_INFO, dot, html, index_html>>
    /\ UNCHANGED harnessVars

Next ==
    \/ prep_hashtable_populate
    \/ prep_hashtable_reverse
    \/ write_index_html
    \/ write_dot_src
    \/ write_html
    \/ write_compile_dot

Spec == Init /\ [][Next]_vars

-----------------------------------------------------------------------------
(* Vocabulary of the properties *)

pass2Done == pc \in {"write_index_html", "write_dot_src", "write_html",
                     "write_compile_dot", "done"}

\* the keys whose tuple carries citations and reverse citations
Full == {k \in KeySet(RFC_INFO) : Len(Get(RFC_INFO, k)) = 4}

Citations(k) == Get(RFC_INFO, k)[3]

ReverseCitations(k) == Get(RFC_INFO, k)[4]

Declared == Elems(index)

\* position of the first occurrence of x in the sequence s
Pos(s, x) == Min({k \in 1..Len(s) : s[k] = x})

\* the digits of an identifier RFC<digits>
NumOf(id) == SubSeq(id, 4, Len(id))

\* RFC<n>, no leading zeros
IsCanonical(id) ==
    /\ Len(id) >= 4
    /\ SubSeq(id, 1, 3) = <<"R", "F", "C">>
    /\ \A k \in 4..Len(id) : IsDigit(id[k])
    /\ (id[4] = "0" => Len(id) = 4)

\* the canonical identifier denoted by a doc-id
CanonicalOf(id) == <<"R", "F", "C">> \o str(int(NumOf(id)))

\* the file get_citations opens for a doc-id
FileOf(k) == zips[Lower(StripZeros(k).rfc)]

\* occurrences <<p, d, k>> in s of RFC at p, then whitespace, then a maximal
\* run of k digits from d, delimited by non-word characters
TokenOccs(s) ==
    UNION {
      UNION {
        { <<p, d, k>> : k \in {n \in 1..(Len(s) - d + 1) :
                                /\ \A j \in d..(d + n - 1) : IsDigit(s[j])
                                /\ d + n > Len(s) \/ ~IsWord(s[d + n])} }
        : d \in {e \in (p + 3)..Len(s) : \A j \in (p + 3)..(e - 1) : IsSpace(s[j])} }
      : p \in {q \in 1..(Len(s) - 2) :
                /\ q = 1 \/ ~IsWord(s[q - 1])
                /\ Lower(SubSeq(s, q, q + 2)) = <<"r", "f", "c">>} }

\* the occurrence lies between a [ and a ] with no ] from the [ to its end
InBrackets(s, o) ==
    /\ \E a \in 1..(o[1] - 1) :
          s[a] = "[" /\ \A j \in a..(o[2] + o[3] - 1) : s[j] # "]"
    /\ \E c \in (o[2] + o[3])..Len(s) : s[c] = "]"

RawOf(s, o) == SubSeq(s, o[2], o[2] + o[3] - 1)

CitedOccs(s) == {o \in TokenOccs(s) : o[3] <= 4 /\ InBrackets(s, o)}

\* where in s the identifier id is first cited
FirstCited(s, id) ==
    Min({o[1] : o \in {c \in CitedOccs(s) : int(RawOf(s, c)) = int(NumOf(id))}})

-----------------------------------------------------------------------------
(* Properties *)

\* C1: once the reverse-citation pass has run, for all entries A and B of
\* the store, B is in A's citations exactly when A is in B's reverse
\* citations; when the pass ends every key is such an entry.
C1_ReverseCitationIff ==
    pass2Done =>
        /\ pc = "write_index_html" => Full = KeySet(RFC_INFO)
        /\ \A A \in Full, B \in Full :
              B \in Elems(Citations(A)) <=> A \in Elems(ReverseCitations(B))

C1_Witness ==
    /\ pass2Done
    /\ \E A \in Full, B \in Full :
          /\ A # B
          /\ B \in Elems(Citations(A))
          /\ A \in Elems(ReverseCitations(B))
          /\ A \notin Elems(Citations(B))

\* C2: no identifier occurs twice in any reverse-citation list, also when
\* the citing text cites the entry at several places.
C2_NoDuplicateReverse ==
    \A B \in Full :
        \A a \in 1..Len(ReverseCitations(B)), b \in 1..Len(ReverseCitations(B)) :
            ReverseCitations(B)[a] = ReverseCitations(B)[b] => a = b

C2_Witness ==
    /\ pass2Done
    /\ \E A \in Full, B \in Full :
          /\ A \in Elems(ReverseCitations(B))
          /\ FileOf(A).found
          /\ Cardinality({o \in CitedOccs(FileOf(A).raw) :
                            TokenOf(RawOf(FileOf(A).raw, o)) = B}) >= 2

C4_CanonicalIds ==
    /\ \A k \in KeySet(RFC_INFO) : IsCanonical(k)
    /\ \A k \in Full :
          \A c \in Elems(Citations(k)) \cup Elems(ReverseCitations(k)) :
              IsCanonical(c)

\* C5 (as claimed): the citation list get_citations computes for an entry
\* never holds the entry's own canonical identifier.
C5_SelfExcluded ==
    xpc = "get_citations" => CanonicalOf(rfcArg) \notin Elems(result)

\* C6: the list extract_rfc_citations returns holds canonical identifiers,
\* no two of which denote the same number, in the order in which they are
\* first cited in the whole text.
C6_DedupFirstAppearance ==
    xpc = "extract_rfc_citations" =>
        /\ \A a \in 1..Len(result) : IsCanonical(result[a])
        /\ \A a \in 1..Len(result), b \in 1..Len(result) :
              a < b =>
                 /\ int(NumOf(result[a])) # int(NumOf(result[b]))
                 /\ FirstCited(text, result[a]) < FirstCited(text, result[b])

C6_Witness ==
    /\ xpc = "extract_rfc_citations"
    /\ Len(result) = 2
    /\ \E o \in CitedOccs(text) :
          /\ o[1] = FirstCited(text, result[1])
          /\ RawOf(text, o) # NumOf(result[1])

\* C7: the identifiers extract_rfc_citations returns are exactly the
\* canonical forms of the RFC tokens of 1 to 4 digits lying inside a
\* bracketed span, less the rfc argument: a token outside brackets or one of
\* more than 4 digits contributes nothing.
C7_ExactlyBracketedTokens ==
    xpc = "extract_rfc_citations" =>
        Elems(result) =
            {TokenOf(RawOf(text, o)) : o \in CitedOccs(text)} \ {rfcArg}

C7_Witness ==
    /\ xpc = "extract_rfc_citations"
    /\ result # <<>>
    /\ \E o \in TokenOccs(text) :
          /\ ~InBrackets(text, o)
          /\ o[3] <= 4
          /\ TokenOf(RawOf(text, o)) \notin Elems(result) \cup {rfcArg}

\* C8: a document text that cannot be opened does not abort the run: the
\* record is inserted with an empty citation list and population goes on
\* with the records that follow.
C8_MissingTextRecoverable ==
    /\ pc # "aborted"
    /\ \A j \in 1..Len(index) :
          (pc = "pass1" => j < i) =>
              /\ index[j] \in Full
              /\ ~FileOf(index[j]).found => Citations(index[j]) = <<>>

C8_Witness ==
    /\ pc = "done"
    /\ \E j \in 1..Len(index) :
          /\ j < Len(index)
          /\ ~FileOf(index[j]).found
          /\ FileOf(index[j + 1]).found
          /\ Citations(index[j + 1]) # <<>>

\* C9 (as claimed): every rendering step leaves the store unchanged.
C9_RenderingReadOnly ==
    [][(pc \in {"write_index_html", "write_dot_src", "write_html",
                "write_compile_dot"}) => (RFC_INFO' = RFC_INFO)]_vars

\* C9 (amended): write_index_html, write_html and write_compile_dot leave
\* the store unchanged; write_dot_src leaves every existing entry and the
\* order of the keys unchanged and only appends entries ("", "") for
\* identifiers that were not keys.
C9_RenderingOnlyAddsStubs ==
    [][/\ pc \in {"write_index_html", "write_html", "write_compile_dot"} =>
             RFC_INFO' = RFC_INFO
       /\ pc = "write_dot_src" =>
             /\ Len(RFC_INFO') >= Len(RFC_INFO)
             /\ SubSeq(RFC_INFO', 1, Len(RFC_INFO)) = RFC_INFO
             /\ \A k \in (Len(RFC_INFO) + 1)..Len(RFC_INFO') :
                   /\ RFC_INFO'[k][2] = <<"", "">>
                   /\ RFC_INFO'[k][1] \notin KeySet(RFC_INFO)]_vars

C9_Witness ==
    /\ pc = "write_html"
    /\ Len(index) > 1
    /\ \E k \in KeySet(RFC_INFO) : Get(RFC_INFO, k) = <<"", "">>
    /\ \E k \in 1..Len(dot) : dot[k][1] \in {RFC12, RFC7}

\* C10: the citing entries stand in a reverse-citation list in the order of
\* their insertion into the store, wherever their texts cite the entry.
C10_ReverseOrderIsInsertionOrder ==
    pass2Done =>
        \A B \in Full, A1 \in Full, A2 \in Full :
            /\ B \in Elems(Citations(A1))
            /\ B \in Elems(Citations(A2))
            /\ Pos(Keys(RFC_INFO), A1) < Pos(Keys(RFC_INFO), A2)
            => \E a \in 1..Len(ReverseCitations(B)), b \in 1..Len(ReverseCitations(B)) :
                  /\ a < b
                  /\ ReverseCitations(B)[a] = A1
                  /\ ReverseCitations(B)[b] = A2

C10_Witness ==
    /\ pass2Done
    /\ \E B \in Full, A1 \in Full, A2 \in Full :
          /\ B \in Elems(Citations(A1))
          /\ B \in Elems(Citations(A2))
          /\ Pos(Keys(RFC_INFO), A1) < Pos(Keys(RFC_INFO), A2)
          /\ Pos(Citations(A1), B) > Pos(Citations(A2), B)
          /\ Pos(ReverseCitations(B), A1) < Pos(ReverseCitations(B), A2)

====
